---- MODULE Spec2Model ----
(***************************************************************************)
(* Model of main() in example.py: the login / session-acquisition loop    *)
(* (saved session first, fresh login as fallback, exponential backoff on   *)
(* RateLimitError), the get_accounts call that follows it, and the outer   *)
(* exception handlers that decide main's return value.                     *)
(*                                                                         *)
(* One action per await point of main(): the code between two awaits runs  *)
(* without interleaving, so each action is the awaited call together with  *)
(* everything main does with its result up to the next await or return.    *)
(***************************************************************************)
EXTENDS Integers, Sequences, FiniteSets, TLC

VARIABLES pc, env_ok, session_file, attempt, login_successful,
          ret, handler, trace, out, exit_status, runs

vars == <<pc, env_ok, session_file, attempt, login_successful,
          ret, handler, trace, out, exit_status, runs>>

(* The number of instances of the script started at the same time for the  *)
(* same account (only the concurrent specification moves them).            *)
NumRuns == 2

Procs == 1..NumRuns

(* A retry budget one larger than the one main() sets.                    *)
max_rate_limit_retries_four == 3 + 1

(* max_rate_limit_retries = 3 *)
max_rate_limit_retries == 3

(* the base of wait_time = 60 * (2 ** attempt) *)
base_wait == 60

(* What an awaited mm.login / mm.get_accounts call can do: return, or      *)
(* raise one of the exception classes main distinguishes.  "Exception429"  *)
(* is a generic Exception whose text contains "429" or "rate limit";       *)
(* "IOError" is the OSError of a login whose remote part succeeded and     *)
(* whose session write (save_session=True) failed.                         *)
Results == {"ok", "RateLimitError", "RequireMFAException",
            "Exception", "Exception429", "IOError"}

RECURSIVE Pow2(_)
Pow2(n) == IF n = 0 THEN 1 ELSE 2 * Pow2(n - 1)

(* 2 * attempt written for 2 ** attempt.                                  *)
wait_time_product(a) == base_wait * (2 * a)

(* A fixed wait: the exponent left out.                                    *)
wait_time_flat(a) == base_wait

(* The exponent counted from 1: 120, 240, ...                              *)
wait_time_one_based(a) == base_wait * Pow2(a + 1)

(* wait_time = 60 * (2 ** attempt) *)
wait_time(a) == base_wait * Pow2(a)

(* The retry test off by one: a wait after the last attempt too.          *)
can_retry_off_by_one(a) == a < max_rate_limit_retries

(* The retry test giving up one attempt early.                             *)
can_retry_early(a) == a < max_rate_limit_retries - 2

(* if attempt < max_rate_limit_retries - 1 *)
can_retry(a) == a < max_rate_limit_retries - 1

(* One awaited call as recorded in the history of the run.                 *)
LoginEvent(saved, r) ==
    [op |-> "login", use_saved_session |-> saved, result |-> r,
     attempt |-> attempt, wait_time |-> 0]

SleepEvent(w) ==
    [op |-> "sleep", use_saved_session |-> FALSE, result |-> "ok",
     attempt |-> attempt, wait_time |-> w]

AccountsEvent(r) ==
    [op |-> "get_accounts", use_saved_session |-> FALSE, result |-> r,
     attempt |-> attempt, wait_time |-> 0]

(* `except Exception` placed before `except RequireMFAException`: the MFA *)
(* clause is never reached.                                                *)
OuterHandler_generic_first(r) ==
    IF r \in {"Exception429", "RateLimitError"}
      THEN <<"other", <<"error_condition", "rate_limit_detected">>>>
      ELSE <<"other", <<"error_condition">>>>

(* The outer except clauses of main(), tried in source order; every one    *)
(* returns 1.  The result is <<handler, printed lines>>.                   *)
OuterHandler(r) ==
    CASE r = "RequireMFAException" -> <<"mfa", <<"mfa_required", "check_mfa_secret">>>>
      [] r = "RateLimitError"      -> <<"ratelimit", <<"rate_limit_error", "troubleshooting">>>>
      [] r = "Exception429"        -> <<"other", <<"error_condition", "rate_limit_detected">>>>
      [] OTHER                     -> <<"other", <<"error_condition">>>>

Init ==
    /\ pc = "start"
    /\ env_ok \in BOOLEAN
    /\ session_file \in BOOLEAN
    /\ attempt = 0
    /\ login_successful = FALSE
    /\ ret = {}
    /\ handler = "none"
    /\ trace = <<>>
    /\ out = <<>>
    /\ exit_status = {}
    /\ runs = [p \in Procs |-> [pc |-> "start", attempt |-> 0,
                                 login_successful |-> FALSE, ret |-> {}]]

(* Loop entry that consults the session store and skips the saved-session *)
(* call when there is no stored session.                                   *)
Start_checks_store ==
    /\ pc = "start"
    /\ IF env_ok
         THEN /\ pc' = IF session_file THEN "saved" ELSE "fresh"
              /\ UNCHANGED <<ret, out>>
         ELSE /\ pc' = "done"
              /\ ret' = {1}
              /\ out' = Append(out, "env_missing")
    /\ attempt' = 0
    /\ login_successful' = FALSE
    /\ UNCHANGED <<env_ok, exit_status, runs, session_file, handler, trace>>

(* Lines 12-37: the credentials check, MonarchMoney() and loop entry.      *)
Start ==
    /\ pc = "start"
    /\ IF env_ok
         THEN /\ pc' = "saved"
              /\ UNCHANGED <<ret, out>>
         ELSE /\ pc' = "done"
              /\ ret' = {1}
              /\ out' = Append(out, "env_missing")
    /\ attempt' = 0
    /\ login_successful' = FALSE
    /\ UNCHANGED <<env_ok, exit_status, runs, session_file, handler, trace>>

(* After a RateLimitError inside the loop (lines 52-60 and 77-85): either  *)
(* go to the sleep or return 1.                                            *)
RateLimited(msg) ==
    IF can_retry(attempt)
      THEN /\ pc' = "sleep"
           /\ out' = out \o <<msg, "waiting">>
           /\ UNCHANGED <<ret, login_successful, handler>>
      ELSE /\ pc' = "done"
           /\ ret' = {1}
           /\ out' = out \o <<msg, "retries_exceeded">>
           /\ UNCHANGED <<login_successful, handler>>

(* The saved-session login with every failure handled by the rate-limit    *)
(* clause: wait and try the saved session again, no fresh login.           *)
LoginSaved_retries_any_failure ==
    /\ pc = "saved"
    /\ \E r \in Results :
         /\ trace' = Append(trace, LoginEvent(TRUE, r))
         /\ IF r = "ok"
              THEN /\ out' = Append(out, "saved_ok")
                   /\ login_successful' = TRUE
                   /\ pc' = "after_loop"
                   /\ UNCHANGED <<ret, handler>>
              ELSE RateLimited("rate_limited")
    /\ UNCHANGED <<env_ok, exit_status, runs, session_file, attempt>>

(* Lines 38-63: await mm.login(use_saved_session=True) and its handlers.   *)
LoginSaved ==
    /\ pc = "saved"
    /\ \E r \in Results :
         /\ trace' = Append(trace, LoginEvent(TRUE, r))
         /\ CASE r = "ok" ->
                   /\ out' = Append(out, "saved_ok")
                   /\ login_successful' = TRUE
                   /\ pc' = "after_loop"
                   /\ UNCHANGED <<ret, handler>>
              [] r = "RateLimitError" ->
                   RateLimited("rate_limited")
              [] OTHER ->
                   /\ out' = Append(out, "saved_failed")
                   /\ pc' = "fresh"
                   /\ UNCHANGED <<ret, login_successful, handler>>
    /\ UNCHANGED <<env_ok, exit_status, runs, session_file, attempt>>

(* The fresh login with `break` missing after success: the loop goes on.  *)
LoginFresh_no_break ==
    /\ pc = "fresh"
    /\ \E r \in Results :
         /\ trace' = Append(trace, LoginEvent(FALSE, r))
         /\ CASE r = "ok" ->
                   /\ out' = Append(out, "fresh_ok")
                   /\ login_successful' = TRUE
                   /\ attempt' = attempt + 1
                   /\ pc' = IF attempt + 1 < max_rate_limit_retries
                              THEN "saved" ELSE "after_loop"
                   /\ UNCHANGED <<ret, handler>>
              [] r = "RateLimitError" ->
                   /\ RateLimited("fresh_rate_limited")
                   /\ UNCHANGED attempt
              [] OTHER ->
                   /\ handler' = OuterHandler(r)[1]
                   /\ out' = out \o OuterHandler(r)[2]
                   /\ ret' = {1}
                   /\ pc' = "done"
                   /\ UNCHANGED <<login_successful, attempt>>
    /\ UNCHANGED <<env_ok, exit_status, runs, session_file>>

(* The fresh login with the inner clause written `except Exception`: every *)
(* failure of the fresh login is handled as a rate limit.                  *)
LoginFresh_catch_all ==
    /\ pc = "fresh"
    /\ \E r \in Results :
         /\ trace' = Append(trace, LoginEvent(FALSE, r))
         /\ IF r = "ok"
              THEN /\ out' = Append(out, "fresh_ok")
                   /\ login_successful' = TRUE
                   /\ pc' = "after_loop"
                   /\ UNCHANGED <<ret, handler>>
              ELSE RateLimited("fresh_rate_limited")
    /\ UNCHANGED <<env_ok, exit_status, runs, session_file, attempt>>

(* The fresh login with a failed session write swallowed: the login is    *)
(* taken as successful although mm.login raised.                           *)
LoginFresh_ignores_save_error ==
    /\ pc = "fresh"
    /\ \E r \in Results :
         /\ trace' = Append(trace, LoginEvent(FALSE, r))
         /\ CASE r \in {"ok", "IOError"} ->
                   /\ out' = Append(out, "fresh_ok")
                   /\ login_successful' = TRUE
                   /\ pc' = "after_loop"
                   /\ UNCHANGED <<ret, handler>>
              [] r = "RateLimitError" ->
                   RateLimited("fresh_rate_limited")
              [] OTHER ->
                   /\ handler' = OuterHandler(r)[1]
                   /\ out' = out \o OuterHandler(r)[2]
                   /\ ret' = {1}
                   /\ pc' = "done"
                   /\ UNCHANGED login_successful
    /\ UNCHANGED <<env_ok, exit_status, runs, session_file, attempt>>

(* Lines 64-85: await mm.login(use_saved_session=False) inside the         *)
(* `except Exception` clause; anything but RateLimitError leaves the loop  *)
(* and reaches the outer handlers (lines 98-123).                          *)
LoginFresh ==
    /\ pc = "fresh"
    /\ \E r \in Results :
         /\ trace' = Append(trace, LoginEvent(FALSE, r))
         /\ CASE r = "ok" ->
                   /\ out' = Append(out, "fresh_ok")
                   /\ login_successful' = TRUE
                   /\ pc' = "after_loop"
                   /\ UNCHANGED <<ret, handler>>
              [] r = "RateLimitError" ->
                   RateLimited("fresh_rate_limited")
              [] OTHER ->
                   /\ handler' = OuterHandler(r)[1]
                   /\ out' = out \o OuterHandler(r)[2]
                   /\ ret' = {1}
                   /\ pc' = "done"
                   /\ UNCHANGED login_successful
    /\ UNCHANGED <<env_ok, exit_status, runs, session_file, attempt>>

(* A backoff that resumes on the path that was rate-limited instead of    *)
(* at the top of the loop body.                                            *)
Sleep_same_path ==
    /\ pc = "sleep"
    /\ trace' = Append(trace, SleepEvent(wait_time(attempt)))
    /\ attempt' = attempt + 1
    /\ pc' = IF attempt + 1 < max_rate_limit_retries
               THEN (IF trace[Len(trace)].use_saved_session THEN "saved" ELSE "fresh")
               ELSE "after_loop"
    /\ UNCHANGED <<env_ok, exit_status, runs, session_file, login_successful, ret, handler, out>>

(* Lines 56-57 and 81-82: await asyncio.sleep(wait_time); continue.  The   *)
(* for statement then takes the next value of range(3), or leaves the      *)
(* loop when there is none.                                                *)
Sleep ==
    /\ pc = "sleep"
    /\ trace' = Append(trace, SleepEvent(wait_time(attempt)))
    /\ attempt' = attempt + 1
    /\ pc' = IF attempt + 1 < max_rate_limit_retries THEN "saved" ELSE "after_loop"
    /\ UNCHANGED <<env_ok, exit_status, runs, session_file, login_successful, ret, handler, out>>

(* Lines 87-89: the check after the loop.                                  *)
AfterLoop ==
    /\ pc = "after_loop"
    /\ IF login_successful
         THEN /\ pc' = "accounts"
              /\ UNCHANGED <<ret, out>>
         ELSE /\ pc' = "done"
              /\ ret' = {1}
              /\ out' = Append(out, "failed_all_attempts")
    /\ UNCHANGED <<env_ok, exit_status, runs, session_file, attempt, login_successful, handler, trace>>

(* get_accounts with `return 0` reached on the exception path too.         *)
GetAccounts_returns_zero ==
    /\ pc = "accounts"
    /\ \E r \in Results :
         /\ trace' = Append(trace, AccountsEvent(r))
         /\ IF r = "ok"
              THEN /\ out' = Append(out, "retrieved_accounts")
                   /\ UNCHANGED handler
              ELSE /\ handler' = OuterHandler(r)[1]
                   /\ out' = out \o OuterHandler(r)[2]
    /\ ret' = {0}
    /\ pc' = "done"
    /\ UNCHANGED <<env_ok, exit_status, runs, session_file, attempt, login_successful>>

(* Lines 91-96: await mm.get_accounts(), then return 0; an exception       *)
(* reaches the outer handlers.                                             *)
GetAccounts ==
    /\ pc = "accounts"
    /\ \E r \in Results :
         /\ trace' = Append(trace, AccountsEvent(r))
         /\ IF r = "ok"
              THEN /\ out' = Append(out, "retrieved_accounts")
                   /\ ret' = {0}
                   /\ UNCHANGED handler
              ELSE /\ handler' = OuterHandler(r)[1]
                   /\ out' = out \o OuterHandler(r)[2]
                   /\ ret' = {1}
    /\ pc' = "done"
    /\ UNCHANGED <<env_ok, exit_status, runs, session_file, attempt, login_successful>>

(* Lines 126-131: asyncio.run(main()) has returned; the script prints one  *)
(* of two lines and runs off its end, so the interpreter exits with 0.     *)
Exit ==
    /\ pc = "done"
    /\ exit_status = {}
    /\ out' = Append(out, IF ret = {0} THEN "main_completed" ELSE "main_failed")
    /\ exit_status' = {0}
    /\ UNCHANGED <<pc, env_ok, runs, session_file, attempt, login_successful,
                   ret, handler, trace>>

Next ==
    \/ Start
    \/ LoginSaved
    \/ LoginFresh
    \/ Sleep
    \/ AfterLoop
    \/ GetAccounts
    \/ Exit

Spec == Init /\ [][Next]_vars

(* asyncio.run(main()) drives the coroutine until it returns.              *)
FairSpec == Spec /\ WF_vars(Next)

TypeOK ==
    /\ pc \in {"start", "saved", "fresh", "sleep", "after_loop", "accounts", "done"}
    /\ attempt \in 0..max_rate_limit_retries
    /\ login_successful \in BOOLEAN
    /\ ret \in {{}, {0}, {1}}
    /\ handler \in {"none", "mfa", "ratelimit", "other"}
    /\ exit_status \in {{}, {0}, {1}}

(***************************************************************************)
(* Several instances of the script running at the same time for the same   *)
(* account.  Each instance runs main() as above; here the two login calls  *)
(* are split into the call and its return, so that an instance can be      *)
(* inside mm.login(save_session=True) while another one runs.  main()      *)
(* takes no lock and makes no check before either call.                    *)
(***************************************************************************)
SingleRunVars == <<pc, env_ok, session_file, attempt, login_successful,
                   ret, handler, trace, out, exit_status>>

RunStep(p, r) == /\ runs' = [runs EXCEPT ![p] = r]
                 /\ UNCHANGED SingleRunVars

(* Lines 12-37 *)
RunStart(p) ==
    /\ runs[p].pc = "start"
    /\ RunStep(p, IF env_ok
                    THEN [runs[p] EXCEPT !.pc = "saved"]
                    ELSE [runs[p] EXCEPT !.pc = "done", !.ret = {1}])

(* Line 40: mm.login(save_session=True, use_saved_session=True) is entered *)
RunCallSaved(p) ==
    /\ runs[p].pc = "saved"
    /\ RunStep(p, [runs[p] EXCEPT !.pc = "in_saved"])

(* Lines 51-60 and 76-85 *)
RunRateLimited(p) ==
    IF can_retry(runs[p].attempt)
      THEN [runs[p] EXCEPT !.pc = "sleep"]
      ELSE [runs[p] EXCEPT !.pc = "done", !.ret = {1}]

(* Lines 47-63: the saved-session login returns or raises *)
RunReturnSaved(p) ==
    /\ runs[p].pc = "in_saved"
    /\ \E r \in Results :
         RunStep(p, CASE r = "ok" ->
                           [runs[p] EXCEPT !.pc = "after_loop",
                                           !.login_successful = TRUE]
                      [] r = "RateLimitError" -> RunRateLimited(p)
                      [] OTHER -> [runs[p] EXCEPT !.pc = "fresh"])

(* Line 66: mm.login(save_session=True, use_saved_session=False) is entered *)
RunCallFresh(p) ==
    /\ runs[p].pc = "fresh"
    /\ RunStep(p, [runs[p] EXCEPT !.pc = "in_fresh"])

(* Lines 73-85 and 98-123: the fresh login returns or raises *)
RunReturnFresh(p) ==
    /\ runs[p].pc = "in_fresh"
    /\ \E r \in Results :
         RunStep(p, CASE r = "ok" ->
                           [runs[p] EXCEPT !.pc = "after_loop",
                                           !.login_successful = TRUE]
                      [] r = "RateLimitError" -> RunRateLimited(p)
                      [] OTHER -> [runs[p] EXCEPT !.pc = "done", !.ret = {1}])

(* Lines 56-57 and 81-82 *)
RunSleep(p) ==
    /\ runs[p].pc = "sleep"
    /\ RunStep(p, [runs[p] EXCEPT
                     !.attempt = @ + 1,
                     !.pc = IF runs[p].attempt + 1 < max_rate_limit_retries
                              THEN "saved" ELSE "after_loop"])

(* Lines 87-89 *)
RunAfterLoop(p) ==
    /\ runs[p].pc = "after_loop"
    /\ RunStep(p, IF runs[p].login_successful
                    THEN [runs[p] EXCEPT !.pc = "accounts"]
                    ELSE [runs[p] EXCEPT !.pc = "done", !.ret = {1}])

(* Lines 91-96 and 98-123 *)
RunGetAccounts(p) ==
    /\ runs[p].pc = "accounts"
    /\ \E r \in Results :
         RunStep(p, [runs[p] EXCEPT !.pc = "done",
                                    !.ret = IF r = "ok" THEN {0} ELSE {1}])

ConcNext ==
    \E p \in Procs :
        \/ RunStart(p)
        \/ RunCallSaved(p)
        \/ RunReturnSaved(p)
        \/ RunCallFresh(p)
        \/ RunReturnFresh(p)
        \/ RunSleep(p)
        \/ RunAfterLoop(p)
        \/ RunGetAccounts(p)

ConcSpec == Init /\ [][ConcNext]_vars

(* The instances that are inside a login call that writes the session.     *)
InSavingLogin == {p \in Procs : runs[p].pc \in {"in_saved", "in_fresh"}}

(***************************************************************************)
(* Reading the history of a run.                                           *)
(***************************************************************************)
IsLogin(i)   == trace[i].op = "login"
IsSaved(i)   == IsLogin(i) /\ trace[i].use_saved_session
IsFresh(i)   == IsLogin(i) /\ ~trace[i].use_saved_session
IsSleep(i)   == trace[i].op = "sleep"
Failed(i, r) == trace[i].result = r
Pos          == 1..Len(trace)
SavedCalls   == {i \in Pos : IsSaved(i)}
FreshCalls   == {i \in Pos : IsFresh(i)}
SleepCalls   == {i \in Pos : IsSleep(i)}
Printed(m)   == Cardinality({i \in 1..Len(out) : out[i] = m})

IsSleepEvent(e) == e.op = "sleep"
IsLoginEvent(e) == e.op = "login"
IsSavedEvent(e) == e.op = "login" /\ e.use_saved_session

(* The waits of the run, in order.                                         *)
Waits == [i \in 1..Len(SelectSeq(trace, IsSleepEvent)) |->
              SelectSeq(trace, IsSleepEvent)[i].wait_time]

(* C1: a login (saved or fresh) that raised RateLimitError at attempt a is *)
(* never followed by a successful login unless a sleep of 60 * 2^a was     *)
(* performed between the two.                                              *)
C1_BackoffBeforeSuccess ==
    \A i \in Pos : \A j \in Pos :
        (i < j /\ IsLogin(i) /\ Failed(i, "RateLimitError")
               /\ IsLogin(j) /\ Failed(j, "ok"))
        => \E k \in (i + 1)..(j - 1) :
               IsSleep(k) /\ trace[k].wait_time = 60 * 2^(trace[i].attempt)

C1_Witness ==
    \E i \in Pos : \E j \in Pos :
        i < j /\ IsLogin(i) /\ Failed(i, "RateLimitError")
              /\ IsLogin(j) /\ Failed(j, "ok")

(* C2 as stated: once any login call, on either path, fails with           *)
(* RequireMFAException no further login call is issued, and when main has  *)
(* returned the MFA outcome has been reported exactly once.                *)
C2_MFANeverRetriedAnyPath ==
    \A i \in Pos :
        (IsLogin(i) /\ Failed(i, "RequireMFAException"))
        => /\ \A j \in Pos : j > i => ~IsLogin(j)
           /\ pc = "done" => Printed("mfa_required") = 1

(* C2 amended: a fresh login that fails with RequireMFAException is the    *)
(* last call of the run, main returns 1 and the MFA outcome is reported    *)
(* exactly once; a saved-session login that fails with RequireMFAException *)
(* is followed by one fresh login call.                                    *)
C2_MFATerminalOnFreshPath ==
    \A i \in Pos :
        (IsLogin(i) /\ Failed(i, "RequireMFAException"))
        => IF IsFresh(i)
             THEN /\ i = Len(trace)
                  /\ pc = "done"
                  /\ ret = {1}
                  /\ Printed("mfa_required") = 1
             ELSE /\ i = Len(trace) => pc = "fresh"
                  /\ i < Len(trace) => IsFresh(i + 1)

C2_Witness ==
    /\ \E i \in Pos : IsFresh(i) /\ Failed(i, "RequireMFAException")
    /\ \E i \in Pos : IsSaved(i) /\ Failed(i, "RequireMFAException")
                       /\ i < Len(trace)

(* The number of saved-session logins that were rate-limited before call i *)
SavedRateLimitsBefore(i) ==
    Cardinality({j \in SavedCalls : j < i /\ Failed(j, "RateLimitError")})

(* The first fresh login of the run, when it was rate-limited.             *)
FirstFreshRateLimited(i) ==
    /\ IsFresh(i)
    /\ Failed(i, "RateLimitError")
    /\ \A j \in FreshCalls : j >= i

(* C3 as stated: however many times the saved-session path was rate-       *)
(* limited before the fallback, the first rate-limited fresh login is      *)
(* followed by a backoff of exactly 60 (the fresh path counts from 0).     *)
C3_FreshCounterStartsAtZero ==
    \A i \in Pos :
        FirstFreshRateLimited(i)
        => /\ i = Len(trace) => pc = "sleep"
           /\ i < Len(trace) => IsSleep(i + 1) /\ trace[i + 1].wait_time = 60

(* C3 amended: both paths share the loop counter.  When the saved-session  *)
(* path was rate-limited k times before the fallback, the first rate-      *)
(* limited fresh login is followed by a backoff of 60 * 2^k if k < 2 and   *)
(* by return 1 without a sleep if k = 2, and the run makes at most 3 - k   *)
(* fresh login calls.                                                      *)
C3_SharedCounter ==
    \A i \in Pos :
        FirstFreshRateLimited(i)
        => LET k == SavedRateLimitsBefore(i) IN
           /\ k \in 0..2
           /\ trace[i].attempt = k
           /\ Cardinality(FreshCalls) <= 3 - k
           /\ IF k < 2
                THEN /\ i = Len(trace) => pc = "sleep"
                     /\ i < Len(trace) => /\ IsSleep(i + 1)
                                          /\ trace[i + 1].wait_time = 60 * 2^k
                ELSE /\ i = Len(trace)
                     /\ pc = "done"
                     /\ ret = {1}

C3_Witness ==
    \E i \in Pos :
        /\ FirstFreshRateLimited(i)
        /\ SavedRateLimitsBefore(i) = 1
        /\ i < Len(trace)
        /\ IsSleep(i + 1)

(* C4 as stated: after a rate-limited fresh login and its backoff sleep,   *)
(* the next login call is a fresh login again.                             *)
C4_BackoffFreshThenFresh ==
    \A i \in Pos :
        (IsFresh(i) /\ Failed(i, "RateLimitError") /\ i + 2 <= Len(trace))
        => IsFresh(i + 2)

(* C4 amended: after a rate-limited fresh login and its backoff sleep, the *)
(* next call is a login with use_saved_session=True: the loop body starts  *)
(* again with the saved session.                                           *)
C4_BackoffFreshThenSaved ==
    \A i \in Pos :
        (IsFresh(i) /\ Failed(i, "RateLimitError") /\ i < Len(trace))
        => /\ IsSleep(i + 1)
           /\ i + 1 = Len(trace) => pc = "saved"
           /\ i + 2 <= Len(trace) => IsSaved(i + 2)

C4_Witness ==
    \E i \in Pos :
        /\ IsFresh(i) /\ Failed(i, "RateLimitError")
        /\ i + 2 <= Len(trace)
        /\ IsSaved(i + 2)

FreshRateLimits == {i \in FreshCalls : Failed(i, "RateLimitError")}

SavedResults == [i \in 1..Len(SelectSeq(trace, IsSavedEvent)) |->
                    SelectSeq(trace, IsSavedEvent)[i].result]

(* The saved-session login was rate-limited k times and then succeeded.    *)
SavedLimitedThenOk(k) ==
    /\ Len(SavedResults) = k + 1
    /\ SavedResults[k + 1] = "ok"
    /\ \A i \in 1..k : SavedResults[i] = "RateLimitError"

(* C6: for k < 3, when the saved-session login is rate-limited k times and *)
(* then succeeds, the login is successful after exactly k sleeps of        *)
(* 60 * 2^0 .. 60 * 2^(k-1) in that order, k + 1 saved-session calls and   *)
(* no fresh login call.                                                    *)
C6_SavedRetriesThenSuccess ==
    \A k \in 0..2 :
        SavedLimitedThenOk(k)
        => /\ login_successful
           /\ Printed("saved_ok") = 1
           /\ Waits = [i \in 1..k |-> 60 * 2^(i - 1)]
           /\ Cardinality(SavedCalls) = k + 1
           /\ FreshCalls = {}

C6_Witness ==
    /\ SavedLimitedThenOk(2)
    /\ Waits = <<60, 120>>

(* C7: at most 3 saved-session login calls, at most 3 fresh login calls,   *)
(* at most 6 login calls in a run.                                         *)
C7_BoundedLoginCalls ==
    /\ Cardinality(SavedCalls) <= 3
    /\ Cardinality(FreshCalls) <= 3
    /\ Cardinality(SavedCalls \cup FreshCalls) <= 6

C7_Witness ==
    /\ Cardinality(SavedCalls) = 3
    /\ Cardinality(FreshCalls) = 3
    /\ pc = "done"

(* The acquisition has ended: a login succeeded or main returned.          *)
AcquisitionEnded == env_ok /\ (login_successful \/ pc = "done")

(* The terminal outcomes, read from what main has set and printed.         *)
OutcomeSuccess ==
    login_successful /\ Printed("saved_ok") + Printed("fresh_ok") = 1

OutcomeMFABlocked ==
    ~login_successful /\ ret = {1} /\ handler = "mfa"
        /\ Printed("mfa_required") = 1

OutcomeGaveUp ==
    ~login_successful /\ ret = {1} /\ handler # "mfa"
        /\ Printed("retries_exceeded") + Printed("error_condition")
             + Printed("failed_all_attempts") >= 1

OutcomeCount ==
    (IF OutcomeSuccess THEN 1 ELSE 0) + (IF OutcomeMFABlocked THEN 1 ELSE 0)
        + (IF OutcomeGaveUp THEN 1 ELSE 0)

LoginsAndSleeps == Cardinality(SavedCalls \cup FreshCalls \cup SleepCalls)

(* C8: every run ends; when the acquisition has ended exactly one of       *)
(* Success, MFABlocked, GaveUp holds; and from then on no login call and   *)
(* no sleep is made.                                                       *)
C8_TerminatesInOneOutcome ==
    /\ <>(pc = "done")
    /\ [](AcquisitionEnded => OutcomeCount = 1)
    /\ [][AcquisitionEnded => LoginsAndSleeps' = LoginsAndSleeps]_vars

C8_Witness ==
    /\ AcquisitionEnded
    /\ pc = "done"
    /\ OutcomeGaveUp
    /\ Len(Waits) = 2

(* C9 as stated: with no stored session, no login call of the run uses the *)
(* saved session.                                                          *)
C9_AbsentSessionSkipsSaved ==
    ~session_file => /\ pc # "saved"
                     /\ \A i \in Pos : IsLogin(i) => IsFresh(i)

(* C9 amended: whether or not a stored session exists, the first call of a *)
(* run is a login with use_saved_session=True, and a fresh login is only   *)
(* made right after a saved-session login failed with an error other than  *)
(* RateLimitError.                                                         *)
C9_SavedAlwaysFirst ==
    /\ trace # <<>> => IsSaved(1)
    /\ pc = "fresh" => /\ trace # <<>>
                       /\ IsSaved(Len(trace))
    /\ \A i \in FreshCalls :
          /\ i > 1
          /\ IsSaved(i - 1)
          /\ trace[i - 1].result \notin {"ok", "RateLimitError"}

C9_Witness ==
    /\ ~session_file
    /\ trace # <<>>
    /\ IsSaved(1)
    /\ FreshCalls # {}

(* C10: a fresh login that fails with RequireMFAException is the last      *)
(* event of the run: main has returned 1 through the RequireMFAException   *)
(* handler, with no sleep and no call after it.                            *)
C10_FreshMFAEndsRun ==
    \A i \in FreshCalls :
        Failed(i, "RequireMFAException")
        => /\ i = Len(trace)
           /\ pc = "done"
           /\ ret = {1}
           /\ handler = "mfa"
           /\ Printed("check_mfa_secret") = 1

C10_Witness ==
    \E i \in FreshCalls :
        Failed(i, "RequireMFAException") /\ trace[i].attempt = 1

(* C11: when a fresh login (save_session=True) succeeded remotely but the  *)
(* session write failed and mm.login raised, main has returned 1: the      *)
(* login is not recorded or reported as successful and 0 is never          *)
(* returned.                                                               *)
C11_SaveFailureIsFailure ==
    \A i \in FreshCalls :
        Failed(i, "IOError")
        => /\ i = Len(trace)
           /\ pc = "done"
           /\ ret = {1}
           /\ ~login_successful
           /\ Printed("fresh_ok") = 0
           /\ Printed("error_condition") = 1

C11_Witness ==
    \E i \in FreshCalls : Failed(i, "IOError") /\ ret = {1}

(* C12: when the script has ended, the exit status of the process is 0 if  *)
(* main returned 0 and non-zero if main returned 1.                        *)
C12_ExitStatusFollowsOutcome ==
    exit_status # {} => (exit_status = {0} <=> ret = {0})

(* C13: two acquisitions for the same identity are never inside a login    *)
(* call that writes the stored session (save_session=True) at the same     *)
(* time.                                                                   *)
C13_StoreAccessSerialized == Cardinality(InSavingLogin) <= 1

(* A saved-session login that failed with anything but RateLimitError.     *)
SavedOtherFailure(i) ==
    IsSaved(i) /\ trace[i].result \notin {"ok", "RateLimitError"}

(* C14 as stated: a saved-session login that fails for a non-rate-limit    *)
(* reason is followed at once by a fresh login, and if that fresh login    *)
(* succeeds the run has made exactly one call on each path.                *)
C14_FallbackOneCallEachPath ==
    \A i \in Pos :
        SavedOtherFailure(i)
        => /\ i = Len(trace) => pc = "fresh"
           /\ i < Len(trace) =>
                 /\ IsFresh(i + 1)
                 /\ Failed(i + 1, "ok") => /\ login_successful
                                           /\ Cardinality(SavedCalls) = 1
                                           /\ Cardinality(FreshCalls) = 1

(* C14 amended: the fresh login follows at once (no sleep, no second saved *)
(* call in between); if it succeeds the login is successful, with exactly  *)
(* one call on each path when the failed saved-session call was the first  *)
(* call of the run, and in general a + 1 saved-session calls and between 1 *)
(* and a + 1 fresh calls, a being the attempt index of the failed call.    *)
C14_FallbackImmediate ==
    \A i \in Pos :
        SavedOtherFailure(i)
        => /\ i = Len(trace) => pc = "fresh"
           /\ i < Len(trace) =>
                 /\ IsFresh(i + 1)
                 /\ trace[i + 1].attempt = trace[i].attempt
                 /\ Failed(i + 1, "ok") =>
                       /\ login_successful
                       /\ Printed("fresh_ok") = 1
                       /\ Cardinality(SavedCalls) = trace[i].attempt + 1
                       /\ Cardinality(FreshCalls) \in 1..(trace[i].attempt + 1)
                       /\ i = 1 => /\ Cardinality(SavedCalls) = 1
                                   /\ Cardinality(FreshCalls) = 1

C14_Witness ==
    \E i \in Pos :
        /\ SavedOtherFailure(i)
        /\ i < Len(trace)
        /\ IsFresh(i + 1)
        /\ Failed(i + 1, "ok")
        /\ Cardinality(SavedCalls) = 2

(* C15: a fresh login that fails with an error that is neither             *)
(* RateLimitError nor RequireMFAException is the last call of the run:     *)
(* main has returned 1 through `except Exception`, with no sleep and no    *)
(* login after it, at every attempt index.                                 *)
C15_FreshOtherFailureEndsRun ==
    \A i \in FreshCalls :
        trace[i].result \in {"Exception", "IOError"}
        => /\ i = Len(trace)
           /\ pc = "done"
           /\ ret = {1}
           /\ handler = "other"
           /\ ~login_successful

C15_Witness ==
    \E i \in FreshCalls :
        Failed(i, "Exception") /\ trace[i].attempt = 2 /\ ret = {1}

(* C16: a login that fails with a generic error whose text signals         *)
(* throttling is handled like a rate limit: a backoff sleep follows (or    *)
(* the run gives up at the last attempt), never another login call         *)
(* directly.                                                               *)
C16_TextualRateLimitBacksOff ==
    \A i \in Pos :
        (IsLogin(i) /\ Failed(i, "Exception429"))
        => /\ i < Len(trace) => IsSleep(i + 1)
           /\ i = Len(trace) => \/ pc = "sleep"
                                \/ pc = "done" /\ trace[i].attempt = 2

C18_AfterLoopOnlyOnSuccess ==
    /\ pc = "after_loop" => login_successful
    /\ Printed("failed_all_attempts") = 0
    /\ attempt < 3

C18_Witness ==
    /\ pc = "after_loop"
    /\ login_successful
    /\ attempt = 2

TotalWait ==
    LET S[n \in 0..Len(Waits)] == IF n = 0 THEN 0 ELSE S[n - 1] + Waits[n]
    IN  S[Len(Waits)]

AccountsCalls == {i \in Pos : trace[i].op = "get_accounts"}
LoginOk       == \E i \in Pos : IsLogin(i) /\ Failed(i, "ok")

====
